---- MODULE Spec2Model ----
(***************************************************************************)
(* Notification delivery engine of the Business Guru backend:              *)
(* EmailService.send_client_update_notification (src/email_service.py)     *)
(* with its three transport paths (_send_via_smtp, _send_via_brevo, the    *)
(* inline standard-SMTP fallback), the SMTP sender _send_email, the        *)
(* transactional-API sender _send_brevo_email and the production services. *)
(*                                                                         *)
(* One behaviour of Spec is one call of send_client_update_notification on *)
(* one EmailService instance.  Strings are TLA+ strings; the Python string *)
(* operations the code uses (startswith, in, split, strip) are operators.  *)
(*                                                                         *)
(* GuardSpec is one call of _send_email seen with the threads of           *)
(* smtp_with_timeout and a clock; RouteSpec is the status routes of        *)
(* src/optimized_status_routes.py with their notification threads;         *)
(* ComposeSpec is the derivation of the plain-text body; SecuritySpec is    *)
(* the AccountSecurityManager of src/account_security.py called from       *)
(* several threads.  Each of them leaves the variables of the others where *)
(* they are.                                                               *)
(***************************************************************************)
EXTENDS Integers, Sequences, FiniteSets, TLC

VARIABLES
    cfg,                \* which service is called, and the provider configuration
    client_data,        \* argument client_data (the ClientRecord snapshot)
    tmis_users,         \* argument tmis_users (the StaffDirectory snapshot)
    loan_status,        \* argument loan_status ("" is None)
    smtpEnv,            \* how the SMTP server behaves during this call
    apiEnv,             \* how the transactional API behaves during this call
    pc,                 \* position in send_client_update_notification
    path,               \* transport path being executed
    tmis_recipients,    \* local tmis_recipients of the running path
    client_recipients,  \* local client_recipients of the running path
    tmis_success,       \* local tmis_success of the running path
    client_success,     \* local client_success of the running path
    success,            \* local success of the running path
    msg,                \* the sender call (_send_email, ...) in progress
    server,             \* the smtplib.SMTP session of the running sender call
    connects,           \* SMTP sessions attempted so far, per path and audience
    entered,            \* sender calls that reached their per-recipient loop
    resolved,           \* recipient lists computed so far, per path
    sent,               \* transport requests made so far (SMTP messages, API calls)
    first_result,       \* what the first-choice path returned
    result,             \* return value of send_client_update_notification
    \* one call of _send_email seen with its guard threads and the clock
    gpc,                \* position of the calling thread in _send_email
    call,               \* locals of the call: attempt, retry_delay, the send loop
    elapsed,            \* seconds the calling thread has been blocked in its step
    threads,            \* the threads smtp_with_timeout has started, with their queues
    ret,                \* what the last smtp_with_timeout call returned
    smtp_session,       \* the session the calling thread holds
    g_result,           \* return value of _send_email
    \* the status routes: request handlers and their notification threads
    clients_collection, \* the stored record of the client the requests name
    requests,           \* per request: handler, body, position, locals, response
    workers,            \* per request: its send_notifications_async thread
    email_calls,        \* per request: the calls of send_client_update_notification
    \* the plain-text part of one message
    html_body,          \* argument html_body of a sender
    text_body,          \* local text_body of the sender
    cpc,                \* position in the two substitutions
    \* the account security manager and the threads that call it
    failed_attempts,    \* self.failed_attempts: email -> list of timestamps
    lockouts,           \* self.lockouts: email -> lockout_until
    lock,               \* self.lock: the thread that holds it, 0 when free
    frames,             \* per thread: the public method it is in, and where
    last_return,        \* the last value a public method returned
    utcnow              \* datetime.utcnow(), in minutes

inputs == <<cfg, client_data, tmis_users, loan_status, smtpEnv, apiEnv>>
locals == <<path, tmis_recipients, client_recipients, tmis_success, client_success,
            success, msg, server>>
history == <<connects, entered, resolved, sent, first_result>>
emailVars == <<inputs, pc, locals, history, result>>
guardVars == <<gpc, call, elapsed, threads, ret, smtp_session, g_result>>
routeVars == <<clients_collection, requests, workers, email_calls>>
composeVars == <<html_body, text_body, cpc>>
securityVars == <<failed_attempts, lockouts, lock, frames, last_return, utcnow>>
outside == <<guardVars, routeVars, composeVars, securityVars>>
vars == <<emailVars, outside>>

(***************************************************************************)
(* Python string and list helpers                                          *)
(***************************************************************************)
Range(s) == {s[i] : i \in 1..Len(s)}

\* str.startswith(prefix)
StartsWith(s, prefix) ==
    /\ Len(prefix) <= Len(s)
    /\ SubSeq(s, 1, Len(prefix)) = prefix

\* `sub in s` for two strings
Contains(sub, s) ==
    \E i \in 0..(Len(s) - Len(sub)) : SubSeq(s, i + 1, i + Len(sub)) = sub

\* s.split('@')[0]
RECURSIVE LocalPart(_)
LocalPart(s) ==
    IF Len(s) = 0 \/ SubSeq(s, 1, 1) = "@" THEN ""
    ELSE SubSeq(s, 1, 1) \o LocalPart(SubSeq(s, 2, Len(s)))

\* truthiness of a string: '' and None are falsy
Truthy(s) == s # ""

\* the organizational marker of the staff accounts
Marker == "tmis."

\* dict.get('name') found no key
NoName == "<missing>"

\* str.lower(), over the letters that occur in the addresses of this model
LowerCh(c) ==
    CASE c = "T" -> "t" [] c = "M" -> "m" [] c = "I" -> "i" [] c = "S" -> "s"
      [] c = "C" -> "c" [] c = "X" -> "x" [] OTHER -> c

RECURSIVE Lower(_)
Lower(s) ==
    IF Len(s) = 0 THEN ""
    ELSE LowerCh(SubSeq(s, 1, 1)) \o Lower(SubSeq(s, 2, Len(s)))

\* a recipient handed to a sender: a plain address (str) or a {'name','email'} dict
StrRecipient(email) == [isdict |-> FALSE, email |-> email, name |-> ""]
DictRecipient(name, email) == [isdict |-> TRUE, email |-> email, name |-> name]

Emails(recipients) == [i \in 1..Len(recipients) |-> recipients[i].email]

(***************************************************************************)
(* RecipientResolver: the staff side, one copy per transport path          *)
(***************************************************************************)
\* user.get('email') and user['email'].startswith('tmis.')
IsTmisUser(user) == Truthy(user.email) /\ StartsWith(user.email, Marker)

\* user.get('name', user_email.split('@')[0])
UserName(user) == IF user.name # NoName THEN user.name ELSE LocalPart(user.email)

\* user.get('name', 'TMIS Staff')
StaffDisplayName(user) == IF user.name # NoName THEN user.name ELSE "TMIS Staff"

\* the three-way assignment test shared by the three copies of the resolver
IsAssigned(user, assigned) ==
    \/ user.email \in Range(assigned)
    \/ UserName(user) \in Range(assigned)
    \/ \E i \in 1..Len(assigned) : Contains(assigned[i], user.email)

\* _send_via_smtp: an empty assignment list skips every staff account
SmtpKeepsStaff(user, assigned) ==
    /\ IsTmisUser(user)
    /\ assigned # <<>>
    /\ IsAssigned(user, assigned)

\* _send_via_brevo: an empty assignment list keeps every staff account
BrevoKeepsStaff(user, assigned) ==
    /\ IsTmisUser(user)
    /\ (assigned # <<>> => IsAssigned(user, assigned))

\* the inline fallback of send_client_update_notification
FallbackKeepsStaff(user, assigned) ==
    /\ IsTmisUser(user)
    /\ assigned # <<>>
    /\ IsAssigned(user, assigned)

SmtpStaffRecipients(cd, users) ==
    LET kept == SelectSeq(users, LAMBDA u : SmtpKeepsStaff(u, cd.assigned_staff))
    IN  [i \in 1..Len(kept) |-> StrRecipient(kept[i].email)]

BrevoStaffRecipients(cd, users) ==
    LET kept == SelectSeq(users, LAMBDA u : BrevoKeepsStaff(u, cd.assigned_staff))
    IN  [i \in 1..Len(kept) |-> DictRecipient(StaffDisplayName(kept[i]), kept[i].email)]

FallbackStaffRecipients(cd, users) ==
    LET kept == SelectSeq(users, LAMBDA u : FallbackKeepsStaff(u, cd.assigned_staff))
    IN  [i \in 1..Len(kept) |-> DictRecipient(StaffDisplayName(kept[i]), kept[i].email)]

\* EnhancedProductionEmailService: every account whose lower-cased address is marked
EnhancedStaffRecipients(users) ==
    LET kept == SelectSeq(users, LAMBDA u :
                    Truthy(u.email) /\ StartsWith(Lower(u.email), Marker))
    IN  [i \in 1..Len(kept) |-> StrRecipient(kept[i].email)]

(***************************************************************************)
(* RecipientResolver: the client side                                      *)
(***************************************************************************)
\* users_collection.find_one({'_id': ObjectId(created_by)}) and its 'email'
CreatorId == "id-b"
FindCreatorEmail(created_by) == IF created_by = CreatorId THEN "tmis.b@o" ELSE ""

\* the creator address: explicit staff_email unless 'Unknown', else the lookup
CreatorEmail(cd) ==
    IF Truthy(cd.staff_email) /\ cd.staff_email # "Unknown" THEN cd.staff_email
    ELSE IF Truthy(cd.created_by) THEN FindCreatorEmail(cd.created_by)
    ELSE ""

\* `if x and x not in client_recipients: client_recipients.append(x)`
AppendNew(list, x) ==
    IF Truthy(x) /\ x \notin Range(list) THEN Append(list, x) ELSE list

RECURSIVE AppendAllNew(_, _)
AppendAllNew(list, xs) ==
    IF xs = <<>> THEN list
    ELSE AppendAllNew(AppendNew(list, Head(xs)), Tail(xs))

\* ContactEmails without the comparison of company_email with user_email
ContactEmailsNoCompare(cd) ==
    LET first == IF Truthy(cd.user_email) THEN <<cd.user_email>> ELSE <<>>
    IN  IF Truthy(cd.company_email) THEN Append(first, cd.company_email) ELSE first

\* user_email, then company_email when it differs from user_email
ContactEmails(cd) ==
    LET first == IF Truthy(cd.user_email) THEN <<cd.user_email>> ELSE <<>>
    IN  IF Truthy(cd.company_email) /\ cd.company_email # cd.user_email
        THEN Append(first, cd.company_email)
        ELSE first

\* ... then the staff_emails not yet present, then the creator if not yet present
ClientEmails(cd) ==
    AppendNew(AppendAllNew(ContactEmails(cd), cd.staff_emails), CreatorEmail(cd))

SmtpClientRecipients(cd) ==
    [i \in 1..Len(ClientEmails(cd)) |-> StrRecipient(ClientEmails(cd)[i])]

FallbackClientRecipients(cd) ==
    [i \in 1..Len(ClientEmails(cd)) |-> StrRecipient(ClientEmails(cd)[i])]

BrevoClientRecipients(cd) ==
    [i \in 1..Len(ClientEmails(cd)) |-> DictRecipient("Client", ClientEmails(cd)[i])]

\* the production services take user_email and company_email only
EnhancedClientRecipients(cd) ==
    [i \in 1..Len(ContactEmails(cd)) |-> StrRecipient(ContactEmails(cd)[i])]

(***************************************************************************)
(* Transports: what one SMTP session attempt, one SMTP message and one API *)
(* request can answer                                                      *)
(***************************************************************************)
max_retries == 3
initial_retry_delay == 2

\* the production sender sleeps the same time before every retry
prod_retry_sleep == 2

\* base classes of the exceptions the transports raise (Python 3 smtplib:
\* SMTPException derives from OSError; TimeoutError is the guard's timeout)
Mro(exc) ==
    CASE exc = "SMTPConnectError" ->
            {"SMTPConnectError", "SMTPResponseException", "SMTPException", "OSError"}
      [] exc = "SMTPAuthenticationError" ->
            {"SMTPAuthenticationError", "SMTPResponseException", "SMTPException", "OSError"}
      [] exc = "SMTPServerDisconnected" ->
            {"SMTPServerDisconnected", "SMTPException", "OSError"}
      [] exc = "SMTPRecipientsRefused" ->
            {"SMTPRecipientsRefused", "SMTPException", "OSError"}
      [] exc = "TimeoutError" -> {"TimeoutError", "OSError"}
      [] OTHER -> {exc}

\* _send_email: except (SMTPConnectError, SMTPServerDisconnected, ConnectionError,
\*                      TimeoutError, OSError)
RetryClause ==
    {"SMTPConnectError", "SMTPServerDisconnected", "ConnectionError", "TimeoutError",
     "OSError"}

IsRetried(exc) == Mro(exc) \cap RetryClause # {}

\* the exception is raised before a session object exists (connection, guard timeout)
BeforeSession(exc) == exc \in {"SMTPConnectError", "TimeoutError"}

\* one pass of the connect / STARTTLS / login block
SessionOutcomes(env) ==
    CASE env = "Deliver" -> {"ok"}
      [] env = "Refuse" -> {"ok"}
      [] env = "Unavailable" -> {"SMTPConnectError", "TimeoutError", "SMTPServerDisconnected"}
      [] env = "AuthReject" -> {"SMTPAuthenticationError"}
      [] env = "Broken" -> {"ValueError"}
      [] env = "FlakySession" ->
            {"ok", "SMTPConnectError", "TimeoutError", "SMTPAuthenticationError"}
      [] OTHER -> {"ok"}

\* server.send_message on a session; a disconnected session refuses everything
SendOutcomes(env, session) ==
    IF session = "dead" THEN {"SMTPServerDisconnected"}
    ELSE CASE env = "Refuse" -> {"SMTPRecipientsRefused"}
           [] env = "FlakySend" ->
                {"Delivered", "SMTPRecipientsRefused", "SMTPServerDisconnected"}
           [] OTHER -> {"Delivered"}

\* brevo_service.send_transac_email: a message id, a response without one, ApiException
ApiOutcomes(env) ==
    CASE env = "Deliver" -> {"Delivered"}
      [] OTHER -> {"Delivered", "NoMessageId", "ApiException"}

\* recipient.strip() is empty
IsBlank(s) == \A i \in 1..Len(s) : SubSeq(s, i, i) = " "

\* AnySuccessful asking for no failed recipient instead
AllSuccessful(successful, failed) == Len(failed) = 0

\* _send_email: return len(successful_recipients) > 0
AnySuccessful(successful, failed) == Len(successful) > 0

(***************************************************************************)
(* Inputs of one call                                                      *)
(***************************************************************************)
MaxDirectory == 3

UserPool ==
    << [email |-> "tmis.a@o", name |-> "Ann"],
       [email |-> "tmis.b@o", name |-> NoName],
       [email |-> "x@o",      name |-> "Xi"],
       [email |-> "TMIS.c@o", name |-> NoName] >>

Directories ==
    {SubSeq(UserPool, 1, n) : n \in 0..(IF MaxDirectory < Len(UserPool)
                                        THEN MaxDirectory ELSE Len(UserPool))}

\* nothing; an address; a display name; a display name and a local part
Assignments == {<<>>, <<"tmis.a@o">>, <<"Ann">>, <<"Ann", "tmis.b">>}

\* contact variations without extras, and the extras on one contact pair
Clients ==
    {[user_email |-> uc[1], company_email |-> uc[2], staff_emails |-> <<>>,
      staff_email |-> "", created_by |-> "", assigned_staff |-> a] :
        uc \in {<<"", "">>, <<"c@x", "">>, <<"c@x", "c@x">>, <<"c@x", "d@x">>},
        a \in Assignments}
    \cup
    {[user_email |-> "c@x", company_email |-> "c@x", staff_emails |-> se,
      staff_email |-> cr[1], created_by |-> cr[2], assigned_staff |-> a] :
        se \in {<<"d@x", "tmis.a@o">>},
        cr \in {<<"", "">>, <<"Unknown", CreatorId>>, <<"tmis.a@o", "">>},
        a \in {<<>>, <<"tmis.a@o">>}}
    \cup
    \* the same mailbox written in two letter cases
    {[user_email |-> "c@x", company_email |-> "C@x", staff_emails |-> <<>>,
      staff_email |-> "", created_by |-> "", assigned_staff |-> <<>>]}

Entries == {"EmailService", "EnhancedProductionEmailService"}

\* The relay host only matters with credentials.  A production service is put
\* behind no other provider, behind standard SMTP and behind the API.  A directly
\* called production service looks at the SMTP credentials only.
Configs ==
    {c \in [entry : Entries, smtp_creds : BOOLEAN, relay : BOOLEAN,
            brevo : {"none", "nofrom", "ok"}, prod : {"none", "enhanced", "fix"}] :
        /\ c.relay => c.smtp_creds
        /\ c.prod # "none" =>
              ~c.relay /\ c.brevo # "nofrom" /\ ~(c.smtp_creds /\ c.brevo = "ok")
        /\ c.entry = "EnhancedProductionEmailService" =>
              c.brevo = "none" /\ c.prod = "enhanced"}

\* always the same answer (Deliver, Unavailable, AuthReject, Broken, Refuse), or any
\* answer to each session attempt (FlakySession) or to each message (FlakySend)
SmtpEnvs ==
    {"Deliver", "Unavailable", "AuthReject", "Broken", "Refuse", "FlakySession",
     "FlakySend"}
ApiEnvs == {"Deliver", "Any"}

Paths == {"relay", "api", "std", "fallback", "production"}
Audiences == {"staff", "client"}

NoMsg == [aud |-> "none", tpl |-> "none", recipients |-> <<>>, attempt |-> 0,
          retry_delay |-> 0, slept |-> <<>>, last |-> "none", idx |-> 0,
          successful |-> <<>>, failed |-> <<>>]

\* no message body in hand
ComposeIdle ==
    /\ html_body = ""
    /\ text_body = ""
    /\ cpc = "idle"

\* the account security manager with nothing recorded and nobody calling
NoFrame == [method |-> "none", email |-> "", at |-> "idle"]
NoReturn == [thread |-> 0, method |-> "none", locked |-> "None", n |-> 0]
SecurityIdle ==
    /\ failed_attempts = <<>>
    /\ lockouts = <<>>
    /\ lock = 0
    /\ frames = <<>>
    /\ last_return = NoReturn
    /\ utcnow = 0

\* the status routes before any request
MaxRequests == 2
Requests == 1..MaxRequests
Gateways == {"g1", "g2"}
NoClient == [exists |-> FALSE, loan_status |-> "",
             payment_gateways_status |-> [g \in Gateways |-> ""]]
NoResponse == [code |-> 0, success |-> FALSE, notifications_sent_async |-> FALSE,
               loan_status |-> "", error |-> ""]
NoUpdate == [payment_gateways_status |-> [g \in Gateways |-> ""], set_gateways |-> FALSE,
             loan_status |-> "", set_loan_status |-> FALSE]
NoWorker == [wpc |-> "none", updated_client |-> NoClient, email_sent |-> "none"]
RouteIdle ==
    /\ clients_collection = NoClient
    /\ requests = <<>>
    /\ workers = <<>>
    /\ email_calls = <<>>

\* the guard of _send_email before any call: nothing started, nothing returned
\* None in the place of a result, and in the place of an exception
None == "None"
NoError == [type |-> "None", by |-> "None"]
GuardTimeout == [type |-> "TimeoutError", by |-> "smtp_with_timeout"]
GuardUnknown == [type |-> "Exception", by |-> "smtp_with_timeout"]
Raised(type) == [type |-> type, by |-> "func"]

\* what create_connection (smtplib.SMTP(host, port, timeout=30)) ends with
FuncOutcomes == {"session", "SMTPConnectError", "OSError", "TimeoutError"}

NoRet == [thread |-> 0, server |-> None, conn_error |-> NoError, alive |-> FALSE, at |-> 0]

NoCall == [n |-> 0, attempt |-> 0, retry_delay |-> 0, idx |-> 0, successful |-> 0]

GuardIdle ==
    /\ gpc = "idle"
    /\ call = NoCall
    /\ elapsed = 0
    /\ threads = <<>>
    /\ ret = NoRet
    /\ smtp_session = "none"
    /\ g_result = "pending"

Init ==
    /\ cfg \in Configs
    /\ client_data \in Clients
    /\ tmis_users \in Directories
    /\ loan_status \in {"", "approved"}
    \* a transport that is not configured is never asked anything
    /\ smtpEnv \in IF cfg.smtp_creds THEN SmtpEnvs ELSE {"Deliver"}
    /\ apiEnv \in IF cfg.brevo = "ok" THEN ApiEnvs ELSE {"Deliver"}
    /\ pc = "select"
    /\ path = "none"
    /\ tmis_recipients = <<>>
    /\ client_recipients = <<>>
    /\ tmis_success = "none"
    /\ client_success = "none"
    /\ success = TRUE
    /\ msg = NoMsg
    /\ server = "none"
    /\ connects = [k \in Paths \X Audiences |-> 0]
    /\ entered = {}
    /\ resolved = {}
    /\ sent = <<>>
    /\ first_result = "none"
    /\ result = "pending"
    /\ GuardIdle
    /\ RouteIdle
    /\ ComposeIdle
    /\ SecurityIdle

(***************************************************************************)
(* send_client_update_notification, step by step                           *)
(***************************************************************************)
Str(b) == IF b THEN "True" ELSE "False"

IsSmtpPath(p) == p \in {"relay", "std", "fallback"}

\* FirstChoice with the production service asked before standard SMTP
FirstChoiceProductionFirst(c) ==
    IF c.smtp_creds /\ c.relay THEN "relay"
    ELSE IF c.brevo # "none" THEN "api"
    ELSE IF c.prod # "none" THEN "production"
    ELSE IF c.smtp_creds THEN "std"
    ELSE "none"

\* the if / elif chain of send_client_update_notification, Priority 1 to 4
FirstChoice(c) ==
    IF c.smtp_creds /\ c.relay THEN "relay"
    ELSE IF c.brevo # "none" THEN "api"
    ELSE IF c.smtp_creds THEN "std"
    ELSE IF c.prod # "none" THEN "production"
    ELSE "none"

\* the first-choice path is picked; a production service called directly is its own
SelectService ==
    /\ pc = "select"
    /\ LET p == IF cfg.entry = "EnhancedProductionEmailService" THEN "production"
                ELSE FirstChoice(cfg)
       IN  IF p = "none"
           THEN path' = path /\ pc' = "done" /\ result' = "False"
           ELSE /\ path' = p
                /\ pc' = IF p = "production" THEN "production" ELSE "resolve"
                /\ UNCHANGED result
    /\ UNCHANGED <<outside, inputs, tmis_recipients, client_recipients, tmis_success,
                   client_success, success, msg, server, history>>

StaffOf(p) ==
    CASE p = "api" -> BrevoStaffRecipients(client_data, tmis_users)
      [] p = "fallback" -> FallbackStaffRecipients(client_data, tmis_users)
      [] p = "production" -> EnhancedStaffRecipients(tmis_users)
      [] OTHER -> SmtpStaffRecipients(client_data, tmis_users)

ClientOf(p) ==
    CASE p = "api" -> BrevoClientRecipients(client_data)
      [] p = "fallback" -> FallbackClientRecipients(client_data)
      [] p = "production" -> EnhancedClientRecipients(client_data)
      [] OTHER -> SmtpClientRecipients(client_data)

Resolution(p) == [path |-> p, staff |-> Emails(StaffOf(p)), client |-> Emails(ClientOf(p))]

\* the head of _send_via_smtp, of _send_via_brevo and of the inline fallback:
\* configuration check, the two recipient lists, the no-recipients return
ResolveRecipients ==
    /\ pc = "resolve"
    /\ IF path = "api" /\ cfg.brevo = "nofrom"
       THEN /\ first_result' = "False"
            /\ pc' = "fallback"
            /\ UNCHANGED <<tmis_recipients, client_recipients, resolved>>
       ELSE /\ tmis_recipients' = StaffOf(path)
            /\ client_recipients' = ClientOf(path)
            /\ resolved' = resolved \cup {Resolution(path)}
            /\ IF path # "fallback" /\ StaffOf(path) = <<>> /\ ClientOf(path) = <<>>
               THEN first_result' = "False" /\ pc' = "fallback"
               ELSE UNCHANGED first_result /\ pc' = "staff_msg"
    /\ success' = TRUE
    /\ tmis_success' = "none"
    /\ client_success' = "none"
    /\ UNCHANGED <<outside, inputs, path, msg, server, connects, entered, sent, result>>

\* the production service: the four-parameter ProductionEmailService cannot take
\* the loan_status argument; the enhanced one validates its SMTP configuration
ProductionNotify ==
    /\ pc = "production"
    /\ IF (cfg.entry = "EmailService" /\ cfg.prod = "fix") \/ ~cfg.smtp_creds
       THEN /\ result' = "False"
            /\ pc' = "done"
            /\ UNCHANGED <<tmis_recipients, client_recipients, resolved>>
       ELSE /\ tmis_recipients' = StaffOf(path)
            /\ client_recipients' = ClientOf(path)
            /\ resolved' = resolved \cup {Resolution(path)}
            /\ pc' = "staff_msg"
            /\ UNCHANGED result
    /\ UNCHANGED <<outside, inputs, path, tmis_success, client_success, success, msg, server,
                   connects, entered, sent, first_result>>

\* the template of the client message: the fallback has the generic one only
ClientTemplate(p) ==
    IF p # "fallback" /\ Truthy(loan_status) THEN "loan" ELSE "client"

NewMsg(aud, tpl, recipients) ==
    [aud |-> aud, tpl |-> tpl, recipients |-> recipients, attempt |-> 0,
     retry_delay |-> initial_retry_delay, slept |-> <<>>, last |-> "none", idx |-> 1,
     successful |-> <<>>, failed |-> <<>>]

SenderOf(p) ==
    CASE p = "api" -> "api_call" [] p = "production" -> "prod_send" [] OTHER -> "connect"

\* `if tmis_recipients:` / `if client_recipients:` and the call of the sender
StartMessage ==
    /\ pc \in {"staff_msg", "client_msg"}
    /\ LET aud == IF pc = "staff_msg" THEN "staff" ELSE "client"
           recipients == IF pc = "staff_msg" THEN tmis_recipients ELSE client_recipients
           tpl == IF pc = "staff_msg" THEN "tmis" ELSE ClientTemplate(path)
       IN  IF recipients = <<>>
           THEN /\ pc' = IF pc = "staff_msg" THEN "client_msg" ELSE "path_done"
                /\ UNCHANGED msg
           ELSE /\ pc' = SenderOf(path)
                /\ msg' = NewMsg(aud, tpl, recipients)
    /\ UNCHANGED <<outside, inputs, path, tmis_recipients, client_recipients, tmis_success,
                   client_success, success, server, history, result>>

\* the sender returns ok to the path, which records it and goes on
MessageReturns(ok) ==
    /\ msg' = NoMsg
    /\ success' = (success /\ ok)
    /\ IF msg.aud = "staff"
       THEN tmis_success' = Str(ok) /\ pc' = "client_msg" /\ UNCHANGED client_success
       ELSE client_success' = Str(ok) /\ pc' = "path_done" /\ UNCHANGED tmis_success

\* _send_email: one pass of the retry loop (connect under the guard, STARTTLS, login)
SmtpConnect ==
    /\ pc = "connect"
    /\ \E out \in SessionOutcomes(smtpEnv) :
        /\ connects' = [connects EXCEPT ![<<path, msg.aud>>] = @ + 1]
        /\ IF out = "ok"
           THEN /\ server' = "open"
                /\ entered' = entered \cup {<<path, msg.aud>>}
                /\ msg' = [msg EXCEPT !.last = out]
                /\ pc' = "send"
                /\ UNCHANGED <<tmis_success, client_success, success>>
           ELSE /\ server' = IF BeforeSession(out) THEN "none" ELSE "closed"
                /\ UNCHANGED entered
                /\ IF IsRetried(out) /\ msg.attempt < max_retries - 1
                   THEN \* time.sleep(retry_delay); retry_delay *= 2
                        /\ msg' = [msg EXCEPT !.attempt = @ + 1,
                                              !.slept = Append(@, msg.retry_delay),
                                              !.retry_delay = @ * 2,
                                              !.last = out]
                        /\ pc' = pc
                        /\ UNCHANGED <<tmis_success, client_success, success>>
                   ELSE MessageReturns(FALSE)
    /\ UNCHANGED <<outside, inputs, path, tmis_recipients, client_recipients, resolved, sent,
                   first_result, result>>

Sent(to, out) == [path |-> path, aud |-> msg.aud, tpl |-> msg.tpl, to |-> to, out |-> out]

\* _send_email: one pass of `for recipient in recipients`
SmtpSend ==
    /\ pc = "send"
    /\ msg.idx <= Len(msg.recipients)
    /\ LET r == msg.recipients[msg.idx]
       IN  IF r.isdict
           THEN \* dict has no strip(): the handler around the loop quits and returns
                /\ server' = "closed"
                /\ MessageReturns(FALSE)
                /\ UNCHANGED sent
           ELSE IF IsBlank(r.email)
           THEN /\ msg' = [msg EXCEPT !.idx = @ + 1]
                /\ UNCHANGED <<pc, server, sent, tmis_success, client_success, success>>
           ELSE \E out \in SendOutcomes(smtpEnv, server) :
                /\ sent' = Append(sent, Sent(<<r.email>>, out))
                /\ msg' = [msg EXCEPT
                             !.idx = @ + 1,
                             !.successful = IF out = "Delivered"
                                            THEN Append(@, r.email) ELSE @,
                             !.failed = IF out = "Delivered"
                                        THEN @ ELSE Append(@, r.email)]
                /\ server' = IF out = "SMTPServerDisconnected" THEN "dead" ELSE server
                /\ UNCHANGED <<pc, tmis_success, client_success, success>>
    /\ UNCHANGED <<outside, inputs, path, tmis_recipients, client_recipients, connects, entered,
                   resolved, first_result, result>>

\* _send_email: after the loop; the session is left as it is
SmtpSendDone ==
    /\ pc = "send"
    /\ msg.idx > Len(msg.recipients)
    /\ MessageReturns(AnySuccessful(msg.successful, msg.failed))
    /\ UNCHANGED <<outside, inputs, path, tmis_recipients, client_recipients, server, history,
                   result>>

\* _send_brevo_email: one request that carries every recipient of the message
BrevoSend ==
    /\ pc = "api_call"
    /\ \E out \in ApiOutcomes(apiEnv) :
        /\ sent' = Append(sent, Sent(Emails(msg.recipients), out))
        /\ MessageReturns(out = "Delivered")
    /\ UNCHANGED <<outside, inputs, path, tmis_recipients, client_recipients, server, connects,
                   entered, resolved, first_result, result>>

\* what one `with smtplib.SMTP(...)` block of the production sender can raise
ProdOutcomes(env) ==
    (SessionOutcomes(env) \ {"ok"})
        \cup (IF "ok" \in SessionOutcomes(env) THEN SendOutcomes(env, "open") ELSE {})

\* _send_email_with_retry: one pass of its loop; one message to all recipients
ProdSend ==
    /\ pc = "prod_send"
    /\ \E out \in ProdOutcomes(smtpEnv) :
        /\ connects' = [connects EXCEPT ![<<path, msg.aud>>] = @ + 1]
        /\ server' = IF BeforeSession(out) THEN "none" ELSE "closed"
        /\ sent' = IF out \in {"Delivered", "SMTPRecipientsRefused"}
                   THEN Append(sent, Sent(Emails(msg.recipients), out))
                   ELSE sent
        /\ IF out = "Delivered"
           THEN MessageReturns(TRUE)
           ELSE IF out \in {"SMTPAuthenticationError", "SMTPRecipientsRefused"}
                   \/ msg.attempt >= max_retries - 1
           THEN MessageReturns(FALSE)
           ELSE \* time.sleep(2)
                /\ msg' = [msg EXCEPT !.attempt = @ + 1,
                                      !.slept = Append(@, prod_retry_sleep),
                                      !.last = out]
                /\ UNCHANGED <<pc, tmis_success, client_success, success>>
    /\ UNCHANGED <<outside, inputs, path, tmis_recipients, client_recipients, entered, resolved,
                   first_result, result>>

\* the end of a path: a first-choice path returns its success, and a failure falls
\* through to the fallback; the fallback and the production service return
PathDone ==
    /\ pc = "path_done"
    /\ IF path \in {"relay", "api", "std"}
       THEN /\ first_result' = Str(success)
            /\ IF success
               THEN result' = "True" /\ pc' = "done"
               ELSE pc' = "fallback" /\ UNCHANGED result
       ELSE /\ result' = Str(success /\ ~(tmis_recipients = <<>> /\ client_recipients = <<>>))
            /\ pc' = "done"
            /\ UNCHANGED first_result
    /\ UNCHANGED <<outside, inputs, locals, connects, entered, resolved, sent>>

\* "Fallback to standard email service": needs the SMTP credentials
FallbackEntry ==
    /\ pc = "fallback"
    /\ IF cfg.smtp_creds
       THEN path' = "fallback" /\ pc' = "resolve" /\ UNCHANGED result
       ELSE path' = path /\ pc' = "done" /\ result' = "False"
    /\ UNCHANGED <<outside, inputs, tmis_recipients, client_recipients, tmis_success,
                   client_success, success, msg, server, history>>

Next ==
    \/ SelectService
    \/ ResolveRecipients
    \/ ProductionNotify
    \/ StartMessage
    \/ SmtpConnect
    \/ SmtpSend
    \/ SmtpSendDone
    \/ BrevoSend
    \/ ProdSend
    \/ PathDone
    \/ FallbackEntry

Spec == Init /\ [][Next]_vars


(***************************************************************************)
(* _send_email with its threads and the clock: smtp_with_timeout around    *)
(* create_connection, then STARTTLS, login and the send loop on the        *)
(* calling thread.  Time is counted in seconds.                            *)
(***************************************************************************)
timeout_seconds == 30
socket_timeout == 30

\* how long the clock of the model runs in one blocking step
MaxClock == 31
\* recipients handed to the call
MaxRecipients == 2

NewThread == [alive |-> TRUE, outcome |-> "running", result_queue |-> <<>>,
              exception_queue |-> <<>>]

\* thread.join(timeout) with the thread never checked
JoinReturnsWhenFinished(alive, waited) == ~alive

\* thread.join(timeout=timeout_seconds) returns: the thread ended, or the time is up
JoinReturns(alive, waited) == ~alive \/ waited >= timeout_seconds

\* GuardReturn without the look at exception_queue
GuardReturnResultOnly(t) ==
    IF t.alive THEN <<None, GuardTimeout>>
    ELSE IF t.result_queue # <<>> THEN <<Head(t.result_queue), NoError>>
    ELSE <<None, GuardUnknown>>

\* GuardReturn with one pair of queues shared by all the invocations
GuardReturnSharedQueues(t) ==
    LET raised == {i \in 1..Len(threads) : threads[i].exception_queue # <<>>}
        returned == {i \in 1..Len(threads) : threads[i].result_queue # <<>>}
        first(S) == CHOOSE i \in S : \A j \in S : i <= j
    IN  IF t.alive THEN <<None, GuardTimeout>>
        ELSE IF raised # {} THEN <<None, Head(threads[first(raised)].exception_queue)>>
        ELSE IF returned # {} THEN <<Head(threads[first(returned)].result_queue), NoError>>
        ELSE <<None, GuardUnknown>>

\* the tail of smtp_with_timeout: is_alive(), exception_queue, result_queue
GuardReturn(t) ==
    IF t.alive THEN <<None, GuardTimeout>>
    ELSE IF t.exception_queue # <<>> THEN <<None, Head(t.exception_queue)>>
    ELSE IF t.result_queue # <<>> THEN <<Head(t.result_queue), NoError>>
    ELSE <<None, GuardUnknown>>

\* the state of the notification call while another part of the program is looked at
EmailIdle ==
    /\ cfg = [entry |-> "EmailService", smtp_creds |-> TRUE, relay |-> FALSE,
              brevo |-> "none", prod |-> "none"]
    /\ client_data = [user_email |-> "", company_email |-> "", staff_emails |-> <<>>,
                      staff_email |-> "", created_by |-> "", assigned_staff |-> <<>>]
    /\ tmis_users = <<>>
    /\ loan_status = ""
    /\ smtpEnv = "Deliver"
    /\ apiEnv = "Deliver"
    /\ pc = "idle"
    /\ path = "none"
    /\ tmis_recipients = <<>>
    /\ client_recipients = <<>>
    /\ tmis_success = "none"
    /\ client_success = "none"
    /\ success = TRUE
    /\ msg = NoMsg
    /\ server = "none"
    /\ connects = [k \in Paths \X Audiences |-> 0]
    /\ entered = {}
    /\ resolved = {}
    /\ sent = <<>>
    /\ first_result = "none"
    /\ result = "pending"

GuardInit ==
    /\ EmailIdle
    /\ RouteIdle
    /\ ComposeIdle
    /\ SecurityIdle
    /\ gpc = "call"
    /\ \E n \in 1..MaxRecipients :
          call = [n |-> n, attempt |-> 0, retry_delay |-> initial_retry_delay,
                  idx |-> 1, successful |-> 0]
    /\ elapsed = 0
    /\ threads = <<>>
    /\ ret = NoRet
    /\ smtp_session = "none"
    /\ g_result = "pending"

\* smtp_with_timeout: the queues, thread.start(), and the caller enters join
GuardStart ==
    /\ gpc = "call"
    /\ threads' = Append(threads, NewThread)
    /\ gpc' = "join"
    /\ elapsed' = 0
    /\ UNCHANGED <<securityVars, emailVars, routeVars, composeVars, call, ret, smtp_session, g_result>>

\* target() of one guard thread ends: func returned or raised, into that thread's
\* own queue; a thread nobody waits for any more ends the same way
TargetEnds ==
    \E i \in 1..Len(threads) : \E out \in FuncOutcomes :
        /\ threads[i].alive
        /\ threads' = [threads EXCEPT ![i] =
              [alive |-> FALSE, outcome |-> out,
               result_queue |-> IF out = "session" THEN <<"session">> ELSE <<>>,
               exception_queue |-> IF out = "session" THEN <<>> ELSE <<Raised(out)>>]]
        /\ UNCHANGED <<securityVars, emailVars, routeVars, composeVars, gpc, call, elapsed, ret, smtp_session, g_result>>

CallerSteps == {"starttls", "login", "send"}

\* one second passes while the calling thread is blocked
Tick ==
    /\ elapsed < MaxClock
    /\ \/ gpc = "join" /\ ~JoinReturns(threads[Len(threads)].alive, elapsed)
       \/ gpc \in CallerSteps
    /\ elapsed' = elapsed + 1
    /\ UNCHANGED <<securityVars, emailVars, routeVars, composeVars, gpc, call, threads, ret, smtp_session, g_result>>

\* thread.join(timeout=timeout_seconds) returns
JoinReturn ==
    /\ gpc = "join"
    /\ JoinReturns(threads[Len(threads)].alive, elapsed)
    /\ gpc' = "check"
    /\ UNCHANGED <<securityVars, emailVars, routeVars, composeVars, call, elapsed, threads, ret, smtp_session, g_result>>

\* Handle without the `return False` after the last attempt: the loop runs out
HandleFallsThrough(type) ==
    IF IsRetried(type)
    THEN /\ call' = [call EXCEPT !.attempt = @ + 1, !.retry_delay = @ * 2]
         /\ gpc' = IF call.attempt < max_retries - 1 THEN "call" ELSE "send"
         /\ UNCHANGED g_result
    ELSE /\ gpc' = "returned"
         /\ g_result' = "False"
         /\ UNCHANGED call

\* the except clauses of the retry loop, for an exception of the given type
Handle(type) ==
    IF IsRetried(type) /\ call.attempt < max_retries - 1
    THEN /\ call' = [call EXCEPT !.attempt = @ + 1, !.retry_delay = @ * 2]
         /\ gpc' = "call"
         /\ UNCHANGED g_result
    ELSE /\ gpc' = "returned"
         /\ g_result' = "False"
         /\ UNCHANGED call

\* smtp_with_timeout returns (server, conn_error); `if conn_error: raise conn_error`
GuardCheck ==
    /\ gpc = "check"
    /\ LET t == threads[Len(threads)]
           r == GuardReturn(t)
       IN  /\ ret' = [thread |-> Len(threads), server |-> r[1], conn_error |-> r[2],
                      alive |-> t.alive, at |-> elapsed]
           /\ IF r[2] # NoError
              THEN Handle(r[2].type) /\ UNCHANGED smtp_session
              ELSE /\ smtp_session' = "connected"
                   /\ gpc' = "starttls"
                   /\ UNCHANGED <<call, g_result>>
    /\ elapsed' = 0
    /\ UNCHANGED <<securityVars, emailVars, routeVars, composeVars, threads>>

\* what the peer can answer to STARTTLS and to the login; the socket raises its own
\* timeout once it has heard nothing for socket_timeout seconds, and a peer that
\* keeps sending a little never lets it
PeerAnswers(step, waited) ==
    {"ok", "SMTPServerDisconnected"}
        \cup (IF step = "login" THEN {"SMTPAuthenticationError"} ELSE {})
        \cup (IF waited >= socket_timeout THEN {"TimeoutError"} ELSE {})

\* server.starttls() / server.login(): on the calling thread; a failure quits the
\* session and is raised to the retry loop
Handshake ==
    /\ gpc \in {"starttls", "login"}
    /\ \E out \in PeerAnswers(gpc, elapsed) :
          IF out = "ok"
          THEN /\ smtp_session' = IF gpc = "starttls" THEN "tls" ELSE "authenticated"
               /\ gpc' = IF gpc = "starttls" THEN "login" ELSE "send"
               /\ UNCHANGED <<call, g_result>>
          ELSE /\ smtp_session' = "closed"
               /\ Handle(out)
    /\ elapsed' = 0
    /\ UNCHANGED <<securityVars, emailVars, routeVars, composeVars, threads, ret>>

\* server.send_message(individual_msg) for the next recipient, on the calling thread
SendMessage ==
    /\ gpc = "send"
    /\ call.idx <= call.n
    /\ \E delivered \in BOOLEAN :
          call' = [call EXCEPT !.idx = @ + 1,
                               !.successful = IF delivered THEN @ + 1 ELSE @]
    /\ elapsed' = 0
    /\ UNCHANGED <<securityVars, emailVars, routeVars, composeVars, gpc, threads, ret, smtp_session, g_result>>

\* return len(successful_recipients) > 0
SendLoopEnds ==
    /\ gpc = "send"
    /\ call.idx > call.n
    /\ gpc' = "returned"
    /\ g_result' = Str(call.successful > 0)
    /\ elapsed' = 0
    /\ UNCHANGED <<securityVars, emailVars, routeVars, composeVars, call, threads, ret, smtp_session>>

GuardNext ==
    \/ GuardStart
    \/ TargetEnds
    \/ Tick
    \/ JoinReturn
    \/ GuardCheck
    \/ Handshake
    \/ SendMessage
    \/ SendLoopEnds

GuardSpec == GuardInit /\ [][GuardNext]_vars

(***************************************************************************)
(* The status routes (src/optimized_status_routes.py):                      *)
(* update_payment_gateway_status, update_loan_status and                   *)
(* batch_update_statuses, each with the send_notifications_async thread it *)
(* starts.  MaxRequests requests for the same client run concurrently; a   *)
(* step is one database operation or one call.                             *)
(***************************************************************************)
Handlers == {"update_payment_gateway_status", "update_loan_status", "batch_update_statuses"}
GatewayStatuses == {"approved", "not_approved", "pending"}
LoanStatuses == {"approved", "hold", "processing", "rejected", "soon"}

\* request.get_json(): nothing, or the fields the handlers read ("" is an absent key)
NoBody == [empty |-> TRUE, loan_status |-> "", gateway |-> "", status |-> ""]
Bodies(h) ==
    {NoBody} \cup
    IF h = "update_payment_gateway_status"
    THEN {[empty |-> FALSE, loan_status |-> "", gateway |-> gs[1], status |-> gs[2]] :
            gs \in {<<"g1", "">>, <<"g1", "bogus">>, <<"g1", "approved">>,
                    <<"g2", "approved">>}}
    ELSE {[empty |-> FALSE, loan_status |-> lg[1], gateway |-> lg[2], status |-> ""] :
            lg \in IF h = "batch_update_statuses"
                   THEN {<<"bogus", "">>, <<"hold", "">>, <<"hold", "g1">>}
                   ELSE {<<"", "">>, <<"bogus", "">>, <<"approved", "">>}}

\* a handler with a body it can be sent
HandlerBodies == UNION {{<<h, b>> : b \in Bodies(h)} : h \in Handlers}

\* The requests are interchangeable, so they are numbered in one fixed order of
\* handler and body.
KindRank(hb) ==
    (CASE hb[1] = "batch_update_statuses" -> 200
       [] hb[1] = "update_loan_status" -> 100 [] OTHER -> 0)
    + (IF hb[2].empty THEN 0 ELSE 50)
    + (CASE hb[2].loan_status = "" -> 0 [] hb[2].loan_status = "bogus" -> 10
         [] hb[2].loan_status = "approved" -> 20 [] OTHER -> 30)
    + (CASE hb[2].gateway = "" -> 0 [] hb[2].gateway = "g1" -> 1 [] OTHER -> 2)
    + (CASE hb[2].status = "" -> 0 [] hb[2].status = "bogus" -> 3 [] OTHER -> 6)

NewRequest(h, b) ==
    [handler |-> h, body |-> b, rpc |-> "receive", client |-> NoClient,
     update_data |-> NoUpdate, committed |-> FALSE, response |-> NoResponse]

RouteInit ==
    /\ EmailIdle
    /\ GuardIdle
    /\ ComposeIdle
    /\ SecurityIdle
    /\ clients_collection \in
          {NoClient, [exists |-> TRUE, loan_status |-> "soon",
                      payment_gateways_status |-> [g \in Gateways |-> ""]]}
    /\ requests \in {[r \in Requests |-> NewRequest(hb[r][1], hb[r][2])] :
                        hb \in {f \in [Requests -> HandlerBodies] :
                                   \A i \in Requests : \A j \in Requests :
                                       i < j => KindRank(f[i]) <= KindRank(f[j])}}
    /\ workers = [r \in Requests |-> NoWorker]
    /\ email_calls = [r \in Requests |-> <<>>]

ErrorResponse(code, error) ==
    [code |-> code, success |-> FALSE, notifications_sent_async |-> FALSE,
     loan_status |-> "", error |-> error]

\* the response, made of what the notification thread has found out so far
ResponseBodyFromWorker(r) ==
    [code |-> 200, success |-> TRUE,
     notifications_sent_async |-> (workers[r].email_sent = "True"),
     loan_status |-> requests[r].update_data.loan_status, error |-> ""]

\* the success response: the fields of the request, and the constant flag
ResponseBody(r) ==
    [code |-> 200, success |-> TRUE, notifications_sent_async |-> TRUE,
     loan_status |-> requests[r].update_data.loan_status, error |-> ""]

Reject(r, code, error) ==
    requests' = [requests EXCEPT ![r].rpc = "responded",
                                 ![r].response = ErrorResponse(code, error)]

\* update_data of batch_update_statuses: the gateway statuses the handler read,
\* merged with the request's, and the loan status when it is a valid one
BatchUpdate(client, body) ==
    [payment_gateways_status |->
        [g \in Gateways |-> IF g = body.gateway THEN "approved"
                            ELSE client.payment_gateways_status[g]],
     set_gateways |-> body.gateway # "",
     loan_status |-> IF body.loan_status \in LoanStatuses THEN body.loan_status ELSE "",
     set_loan_status |-> body.loan_status \in LoanStatuses]

\* update_payment_gateway_status: {**current_gateway_status, gateway: status}, the
\* whole field written back
GatewayUpdate(client, body) ==
    [payment_gateways_status |->
        [g \in Gateways |-> IF g = body.gateway THEN body.status
                            ELSE client.payment_gateways_status[g]],
     set_gateways |-> TRUE, loan_status |-> "", set_loan_status |-> FALSE]

LoanUpdate(body) ==
    [payment_gateways_status |-> [g \in Gateways |-> ""], set_gateways |-> FALSE,
     loan_status |-> body.loan_status, set_loan_status |-> TRUE]

\* the head of a handler: get_database_collections() (db_up: it found them), body,
\* validation, find_one
Receive(r) ==
    /\ requests[r].rpc = "receive"
    /\ \E db_up \in BOOLEAN :
       LET q == requests[r]
           b == q.body
       IN  IF ~db_up THEN Reject(r, 500, "Database not available")
           ELSE IF b.empty \/ (b.loan_status = "" /\ b.gateway = "")
           THEN Reject(r, 400, "No data provided")
           ELSE IF q.handler = "update_payment_gateway_status"
           THEN IF b.gateway = "" \/ b.status = ""
                THEN Reject(r, 400, "Gateway and status required")
                ELSE IF b.status \notin GatewayStatuses
                THEN Reject(r, 400, "Invalid status")
                ELSE IF ~clients_collection.exists
                THEN Reject(r, 404, "Client not found")
                ELSE requests' = [requests EXCEPT
                                     ![r].rpc = "update",
                                     ![r].client = clients_collection,
                                     ![r].update_data = GatewayUpdate(clients_collection, b)]
           ELSE IF q.handler = "update_loan_status"
           THEN IF b.loan_status = "" THEN Reject(r, 400, "Loan status required")
                ELSE IF b.loan_status \notin LoanStatuses
                THEN Reject(r, 400, "Invalid loan status")
                ELSE IF ~clients_collection.exists
                THEN Reject(r, 404, "Client not found")
                ELSE requests' = [requests EXCEPT ![r].rpc = "update",
                                                  ![r].client = clients_collection,
                                                  ![r].update_data = LoanUpdate(b)]
           ELSE IF ~clients_collection.exists
                THEN Reject(r, 404, "Client not found")
                ELSE LET u == BatchUpdate(clients_collection, b)
                     IN  IF ~u.set_gateways /\ ~u.set_loan_status
                         THEN Reject(r, 400, "No valid updates provided")
                         ELSE requests' = [requests EXCEPT ![r].rpc = "update",
                                                           ![r].client = clients_collection,
                                                           ![r].update_data = u]
    /\ UNCHANGED <<securityVars, emailVars, guardVars, composeVars, clients_collection,
                   workers, email_calls>>

\* clients_collection.update_one({'_id': ...}, {'$set': ...}) and matched_count
UpdateOne(r) ==
    /\ requests[r].rpc = "update"
    /\ LET u == requests[r].update_data
       IN  IF ~clients_collection.exists
           THEN /\ Reject(r, 404, "Client not found")
                /\ UNCHANGED clients_collection
           ELSE /\ clients_collection' =
                      [clients_collection EXCEPT
                          !.loan_status = IF u.set_loan_status THEN u.loan_status ELSE @,
                          !.payment_gateways_status =
                              IF u.set_gateways THEN u.payment_gateways_status ELSE @]
                /\ requests' = [requests EXCEPT ![r].rpc = "start",
                                                ![r].committed = TRUE]
    /\ UNCHANGED <<securityVars, emailVars, guardVars, composeVars, workers, email_calls>>

\* a handler that starts its thread without waiting for update_one
CanStartBeforeUpdate(r) == requests[r].rpc \in {"update", "start"}

\* the thread is made and started after update_one matched the record
CanStart(r) == requests[r].rpc = "start"

\* notification_thread.start() on a daemon thread
StartThread(r) ==
    /\ CanStart(r)
    /\ workers' = [workers EXCEPT ![r].wpc = "started"]
    /\ requests' = [requests EXCEPT ![r].rpc = "respond"]
    /\ UNCHANGED <<securityVars, emailVars, guardVars, composeVars, clients_collection,
                   email_calls>>

\* a handler that joins its thread before it answers
CanRespondAfterJoin(r) ==
    requests[r].rpc = "respond" /\ workers[r].wpc = "finished"

\* the return follows start() directly: nothing of the thread is waited for
CanRespond(r) == requests[r].rpc = "respond"

\* return jsonify({... 'notifications_sent_async': True}), 200
Respond(r) ==
    /\ CanRespond(r)
    /\ requests' = [requests EXCEPT ![r].rpc = "responded",
                                    ![r].response = ResponseBody(r)]
    /\ UNCHANGED <<securityVars, emailVars, guardVars, composeVars, clients_collection,
                   workers, email_calls>>

\* send_notifications_async: find_one again; nothing found ends the thread
WorkerRead(r) ==
    /\ workers[r].wpc = "started"
    /\ workers' = [workers EXCEPT
                      ![r].wpc = IF clients_collection.exists THEN "email" ELSE "finished",
                      ![r].updated_client = clients_collection]
    /\ UNCHANGED <<securityVars, emailVars, guardVars, composeVars, clients_collection,
                   requests, email_calls>>

\* get_email_service() finds no service, or what the call of
\* send_client_update_notification ends with, inside its try
EmailOutcomes == {"unavailable", "True", "False", "raised"}

\* send_notifications_async after its find_one: the email block (none in
\* update_payment_gateway_status; batch_update_statuses passes no loan_status),
\* then, except in batch_update_statuses, the WhatsApp block, which logs whatever
\* the WhatsApp service does inside its own try
WorkerNotify(r) ==
    /\ workers[r].wpc = "email"
    /\ LET loan == requests[r].handler = "update_loan_status"
       IN  IF requests[r].handler = "update_payment_gateway_status"
           THEN /\ workers' = [workers EXCEPT ![r].wpc = "finished"]
                /\ UNCHANGED email_calls
           ELSE \E out \in EmailOutcomes :
              /\ workers' = [workers EXCEPT ![r].wpc = "finished", ![r].email_sent = out]
              /\ email_calls' =
                    IF out = "unavailable" THEN email_calls
                    ELSE [email_calls EXCEPT ![r] = Append(@,
                            [client_data |-> workers[r].updated_client,
                             loan_status |-> IF loan THEN requests[r].update_data.loan_status
                                             ELSE ""])]
    /\ UNCHANGED <<securityVars, emailVars, guardVars, composeVars, clients_collection, requests>>

RouteNext ==
    \/ \E r \in Requests : Receive(r)
    \/ \E r \in Requests : UpdateOne(r)
    \/ \E r \in Requests : StartThread(r)
    \/ \E r \in Requests : Respond(r)
    \/ \E r \in Requests : WorkerRead(r)
    \/ \E r \in Requests : WorkerNotify(r)

RouteSpec == RouteInit /\ [][RouteNext]_vars

(***************************************************************************)
(* The plain-text part: _send_email and _send_brevo_email derive text_body *)
(* from html_body with two regular-expression substitutions.               *)
(***************************************************************************)
Ch(s, i) == SubSeq(s, i, i)

Min(S) == CHOOSE x \in S : \A y \in S : x <= y

\* where a match of '<[^<]+?>' that starts at i ends, 0 if none starts there:
\* '<', then the fewest characters (at least one, none of them '<') up to a '>'
TagEnd(s, i) ==
    IF Ch(s, i) # "<" THEN 0
    ELSE LET ends == {j \in (i + 2)..Len(s) :
                        /\ Ch(s, j) = ">"
                        /\ \A k \in (i + 1)..(j - 1) : Ch(s, k) # "<"}
         IN  IF ends = {} THEN 0 ELSE Min(ends)

\* re.sub('<[^<]+?>', '', s), from position i on
RECURSIVE StripFrom(_, _)
StripFrom(s, i) ==
    IF i > Len(s) THEN ""
    ELSE IF TagEnd(s, i) > 0 THEN StripFrom(s, TagEnd(s, i) + 1)
    ELSE Ch(s, i) \o StripFrom(s, i + 1)

StripTags(s) == StripFrom(s, 1)

\* re.sub(r'\s+', ' ', s): every run of whitespace becomes one space
RECURSIVE CollapseFrom(_, _)
CollapseFrom(s, i) ==
    IF i > Len(s) THEN ""
    ELSE IF Ch(s, i) = " "
    THEN (IF i > 1 /\ Ch(s, i - 1) = " " THEN "" ELSE " ") \o CollapseFrom(s, i + 1)
    ELSE Ch(s, i) \o CollapseFrom(s, i + 1)

\* str.strip() of a string whose whitespace runs are single spaces
Strip(s) ==
    LET from == IF Len(s) > 0 /\ Ch(s, 1) = " " THEN 2 ELSE 1
        to == IF Len(s) > 0 /\ Ch(s, Len(s)) = " " THEN Len(s) - 1 ELSE Len(s)
    IN  SubSeq(s, from, to)

CollapseWhitespace(s) == Strip(CollapseFrom(s, 1))

\* HTML bodies: a paragraph around up to MaxTokens pieces of content.  A piece is
\* a letter, a space, a '>' written as text, an image whose alt text is '>', or a
\* tag of a <b> element.
MaxTokens == 3
Pieces == <<"a", " ", ">", "<img alt='>'>", "<b>", "</b>">>

\* every <b> is closed, and nothing is closed that was not opened
RECURSIVE Balanced(_, _)
Balanced(ps, open) ==
    IF ps = <<>> THEN open = 0
    ELSE IF Head(ps) = "<b>" THEN Balanced(Tail(ps), open + 1)
    ELSE IF Head(ps) = "</b>" THEN open > 0 /\ Balanced(Tail(ps), open - 1)
    ELSE Balanced(Tail(ps), open)

RECURSIVE Concat(_)
Concat(ps) == IF ps = <<>> THEN "" ELSE Head(ps) \o Concat(Tail(ps))

HtmlBodies ==
    {"<p>" \o Concat(ps) \o "</p>" :
        ps \in {q \in UNION {[1..n -> Range(Pieces)] : n \in 0..MaxTokens} :
                   Balanced(q, 0)}}

ComposeInit ==
    /\ EmailIdle
    /\ GuardIdle
    /\ RouteIdle
    /\ SecurityIdle
    /\ html_body \in HtmlBodies
    /\ text_body = ""
    /\ cpc = "tags"

\* text_body = re.sub('<[^<]+?>', '', html_body)
RemoveTags ==
    /\ cpc = "tags"
    /\ text_body' = StripTags(html_body)
    /\ cpc' = "whitespace"
    /\ UNCHANGED <<securityVars, emailVars, guardVars, routeVars, html_body>>

\* text_body = re.sub(r'\s+', ' ', text_body).strip()
CollapseText ==
    /\ cpc = "whitespace"
    /\ text_body' = CollapseWhitespace(text_body)
    /\ cpc' = "composed"
    /\ UNCHANGED <<securityVars, emailVars, guardVars, routeVars, html_body>>

ComposeNext ==
    \/ RemoveTags
    \/ CollapseText

ComposeSpec == ComposeInit /\ [][ComposeNext]_vars

(***************************************************************************)
(* AccountSecurityManager (src/account_security.py): the module's instance *)
(* called by MaxCallers threads.  Every public method runs inside          *)
(* `with self.lock`, a threading.Lock, which is not reentrant.  Time is    *)
(* counted in minutes.                                                     *)
(***************************************************************************)
max_attempts == 5
lockout_duration == 15
attempt_window == 30

\* threads that call the manager
MaxCallers == 2
Callers == 1..MaxCallers
\* the clock runs to MaxTime in steps of ClockStep
MaxTime == 30
ClockStep == 15
\* timestamps kept in one list before no further failure is recorded
MaxStored == 6

SecEmails == {"a@x"}

Methods ==
    {"is_locked", "get_lockout_time_remaining", "record_failed_attempt",
     "record_successful_login", "unlock_account", "get_account_status",
     "cleanup_expired_data"}

\* del d[k], and d[k] = v
Del(d, k) == [x \in DOMAIN d \ {k} |-> d[x]]
Put(d, k, v) == [x \in DOMAIN d \cup {k} |-> IF x = k THEN v ELSE d[x]]

\* [attempt for attempt in attempts if attempt > cutoff_time]
Recent(attempts, t) == SelectSeq(attempts, LAMBDA a : a > t - attempt_window)

Returned(locked, n) == [locked |-> locked, n |-> n]

\* the body of is_locked: an expired lockout is removed
IsLockedBody(e) ==
    IF e \notin DOMAIN lockouts
    THEN [fa |-> failed_attempts, lo |-> lockouts, ret |-> Returned("False", 0)]
    ELSE IF utcnow >= lockouts[e]
    THEN [fa |-> Del(failed_attempts, e), lo |-> Del(lockouts, e),
          ret |-> Returned("False", 0)]
    ELSE [fa |-> failed_attempts, lo |-> lockouts, ret |-> Returned("True", 0)]

\* the body of get_lockout_time_remaining: max(0, int(remaining)) seconds, or None
LockoutTimeRemainingBody(e) ==
    [fa |-> failed_attempts, lo |-> lockouts,
     ret |-> IF e \notin DOMAIN lockouts THEN Returned("None", 0)
             ELSE Returned("True", IF lockouts[e] > utcnow
                                   THEN (lockouts[e] - utcnow) * 60 ELSE 0)]

\* the body of record_failed_attempt
RecordFailedAttemptBody(e) ==
    LET before == IF e \in DOMAIN failed_attempts THEN failed_attempts[e] ELSE <<>>
        attempts == Recent(Append(before, utcnow), utcnow)
        recent_attempts == Len(attempts)
    IN  IF recent_attempts >= max_attempts
        THEN [fa |-> Put(failed_attempts, e, attempts),
              lo |-> Put(lockouts, e, utcnow + lockout_duration),
              ret |-> Returned("True", recent_attempts)]
        ELSE [fa |-> Put(failed_attempts, e, attempts), lo |-> lockouts,
              ret |-> Returned("False", recent_attempts)]

\* the body of record_successful_login, and of unlock_account
ClearBody(e) ==
    [fa |-> Del(failed_attempts, e), lo |-> Del(lockouts, e), ret |-> Returned("None", 0)]

\* the body of get_account_status for an email that is not in self.lockouts
AccountStatusBody(e) ==
    [fa |-> failed_attempts, lo |-> lockouts,
     ret |-> IF e \in DOMAIN failed_attempts
             THEN Returned("False", Len(Recent(failed_attempts[e], utcnow)))
             ELSE Returned("False", 0)]

\* the body of cleanup_expired_data
CleanupBody ==
    LET kept == {e \in DOMAIN failed_attempts : Recent(failed_attempts[e], utcnow) # <<>>}
    IN  [fa |-> [e \in kept |-> Recent(failed_attempts[e], utcnow)],
         lo |-> [e \in {x \in DOMAIN lockouts : utcnow < lockouts[x]} |-> lockouts[e]],
         ret |-> Returned("None", 0)]

MethodBody(m, e) ==
    CASE m = "is_locked" -> IsLockedBody(e)
      [] m = "get_lockout_time_remaining" -> LockoutTimeRemainingBody(e)
      [] m = "record_failed_attempt" -> RecordFailedAttemptBody(e)
      [] m = "get_account_status" -> AccountStatusBody(e)
      [] m = "cleanup_expired_data" -> CleanupBody
      [] OTHER -> ClearBody(e)

SecurityInit ==
    /\ EmailIdle
    /\ GuardIdle
    /\ RouteIdle
    /\ ComposeIdle
    /\ failed_attempts = <<>>
    /\ lockouts = <<>>
    /\ lock = 0
    /\ frames = [t \in Callers |-> NoFrame]
    /\ last_return = NoReturn
    /\ utcnow = 0

\* a thread calls a public method and comes to its `with self.lock:`
SecCall(t) ==
    /\ frames[t].at = "idle"
    /\ \E m \in Methods : \E e \in SecEmails :
        /\ m = "record_failed_attempt" =>
              (e \in DOMAIN failed_attempts => Len(failed_attempts[e]) < MaxStored)
        /\ frames' = [frames EXCEPT ![t] = [method |-> m, email |-> e, at |-> "acquire"]]
    /\ UNCHANGED <<emailVars, guardVars, routeVars, composeVars, failed_attempts,
                   lockouts, lock, last_return, utcnow>>

\* self.lock.acquire() of a `with self.lock:` returns: the lock was free.  The
\* same for the `with` of a method called from inside another one.
SecAcquire(t) ==
    /\ frames[t].at \in {"acquire", "inner_acquire"}
    /\ lock = 0
    /\ lock' = t
    /\ frames' = [frames EXCEPT ![t].at = IF @ = "acquire" THEN "body" ELSE "inner_body"]
    /\ UNCHANGED <<emailVars, guardVars, routeVars, composeVars, failed_attempts,
                   lockouts, last_return, utcnow>>

\* the body of the method under the lock, and the release at the end of the
\* `with`; get_account_status of a locked-out email calls
\* self.get_lockout_time_remaining(email) from inside its `with`
SecRun(t) ==
    /\ frames[t].at \in {"body", "inner_body"}
    /\ LET m == frames[t].method
           e == frames[t].email
       IN  IF frames[t].at = "body" /\ m = "get_account_status" /\ e \in DOMAIN lockouts
           THEN /\ frames' = [frames EXCEPT ![t].at = "inner_acquire"]
                /\ UNCHANGED <<failed_attempts, lockouts, lock, last_return>>
           ELSE IF frames[t].at = "inner_body"
           THEN \* the inner `with` released the lock; the outer one releases a free lock
                /\ frames' = [frames EXCEPT ![t] = NoFrame]
                /\ lock' = 0
                /\ last_return' = [thread |-> t, method |-> m, locked |-> "RuntimeError",
                                   n |-> 0]
                /\ UNCHANGED <<failed_attempts, lockouts>>
           ELSE LET b == MethodBody(m, e)
                IN  /\ failed_attempts' = b.fa
                    /\ lockouts' = b.lo
                    /\ lock' = 0
                    /\ frames' = [frames EXCEPT ![t] = NoFrame]
                    /\ last_return' = [thread |-> t, method |-> m,
                                       locked |-> b.ret.locked, n |-> b.ret.n]
    /\ UNCHANGED <<emailVars, guardVars, routeVars, composeVars, utcnow>>

\* time passes
SecTick ==
    /\ utcnow + ClockStep <= MaxTime
    /\ utcnow' = utcnow + ClockStep
    /\ UNCHANGED <<emailVars, guardVars, routeVars, composeVars, failed_attempts,
                   lockouts, lock, frames, last_return>>

SecurityNext ==
    \/ \E t \in Callers : SecCall(t)
    \/ \E t \in Callers : SecAcquire(t)
    \/ \E t \in Callers : SecRun(t)
    \/ SecTick

SecuritySpec == SecurityInit /\ [][SecurityNext]_vars

\* a thread that can run does run, and a thread that waits for the lock gets it
\* if the lock is free again and again
SecurityFairSpec ==
    /\ SecuritySpec
    /\ \A t \in Callers : WF_vars(SecRun(t)) /\ SF_vars(SecAcquire(t))

(***************************************************************************)
(* Properties                                                              *)
(***************************************************************************)
Done == pc = "done"

\* the recipients the resolvers produced, over the paths that resolved any
Recipients(aud) ==
    UNION {Range(IF aud = "staff" THEN res.staff ELSE res.client) : res \in resolved}

HasRecipients == \E aud \in Audiences : Recipients(aud) # {}

\* sessions attempted for one audience's message, over all paths
SessionsFor(aud) ==
    connects[<<"relay", aud>>] + connects[<<"std", aud>>] + connects[<<"fallback", aud>>]

\* the outcomes the specification calls Unavailable (retryable)
UnavailableOutcomes == {"SMTPConnectError", "SMTPServerDisconnected", "TimeoutError"}

\* The record has no creator address: no usable staff_email, and no account found
NoCreator(cd) ==
    /\ cd.staff_email \in {"", "Unknown"}
    /\ FindCreatorEmail(cd.created_by) = ""

\* requests of one audience's message on one path, in the order they were made
RequestsOf(p, aud) == SelectSeq(sent, LAMBDA m : m.path = p /\ m.aud = aud)

OutcomesOf(p, aud) == [i \in 1..Len(RequestsOf(p, aud)) |-> RequestsOf(p, aud)[i].out]

\* C1: with the relay SMTP always Unavailable and the transactional API always
\* delivering, both configured, every recipient ends Delivered through the API and
\* the relay is attempted max_retries times per message before the API is tried.
C1_ProviderFallThrough ==
    ( /\ Done
      /\ cfg.entry = "EmailService" /\ cfg.smtp_creds /\ cfg.relay /\ cfg.brevo = "ok"
      /\ smtpEnv = "Unavailable" /\ apiEnv = "Deliver"
      /\ HasRecipients )
    => /\ result = "True"
       /\ \A aud \in Audiences : \A r \in Recipients(aud) :
             /\ connects[<<"relay", aud>>] = max_retries
             /\ \E i \in 1..Len(sent) :
                   /\ sent[i].path = "api" /\ sent[i].aud = aud
                   /\ r \in Range(sent[i].to) /\ sent[i].out = "Delivered"

\* C2: with SMTP as the only provider and a permanent rejection as its only answer
\* (authentication failure, or recipients refused), the call fails after exactly one
\* attempt on the provider for each message; and the retry loop goes round again
\* only after an Unavailable outcome.
C2_NoRetryOnRejected ==
    /\ ( /\ Done
         /\ cfg.entry = "EmailService" /\ cfg.smtp_creds /\ cfg.brevo = "none"
         /\ smtpEnv \in {"AuthReject", "Refuse"}
         /\ HasRecipients )
       => /\ result = "False"
          /\ \A aud \in Audiences : Recipients(aud) # {} => SessionsFor(aud) = 1
    /\ (pc = "connect" /\ msg.attempt > 0) => msg.last \in UnavailableOutcomes

\* C3: whatever path resolves the recipients and whatever the directory holds, a
\* record with an empty assigned_staff resolves to an empty staff list.
C3_EmptyAssignmentNoStaff ==
    \A res \in resolved : client_data.assigned_staff = <<>> => res.staff = <<>>

\* C4: with a non-empty assigned_staff, every resolved staff recipient is a marked
\* directory account whose email is an entry, whose display name is an entry, or
\* whose email contains an entry; assigned_staff = [a] with a and b in the directory
\* resolves to exactly a.
C4_StaffScoping ==
    \A res \in resolved :
        client_data.assigned_staff # <<>> =>
            /\ \A e \in Range(res.staff) :
                  \E u \in Range(tmis_users) :
                      /\ u.email = e
                      /\ SubSeq(e, 1, 5) = "tmis."
                      /\ \E a \in Range(client_data.assigned_staff) :
                            \/ a = e
                            \/ a = (IF u.name # NoName THEN u.name ELSE LocalPart(e))
                            \/ Contains(a, e)
            /\ ( /\ client_data.assigned_staff = <<"tmis.a@o">>
                 /\ {"tmis.a@o", "tmis.b@o"} \subseteq {u.email : u \in Range(tmis_users)} )
               => res.staff = <<"tmis.a@o">>

\* C5: a record whose user_email equals its company_email, with no staff_emails and
\* no creator address, resolves to exactly one client recipient on every path.
C5_ContactDedup ==
    \A res \in resolved :
        ( /\ Truthy(client_data.user_email)
          /\ client_data.user_email = client_data.company_email
          /\ client_data.staff_emails = <<>>
          /\ NoCreator(client_data) )
        => res.client = <<client_data.user_email>>

\* C5 witness: such a record went through the API resolver and the fallback resolver
C5_Witness ==
    /\ Done
    /\ client_data.user_email = "c@x" /\ client_data.company_email = "c@x"
    /\ client_data.staff_emails = <<>> /\ NoCreator(client_data)
    /\ {res.path : res \in resolved} = {"api", "fallback"}
    /\ \A res \in resolved : Len(res.client) = 1

\* C6: user_email = company_email = c, nothing assigned, one marked account in the
\* directory, providers that deliver: one run sends exactly one message to c and
\* none to a staff address, whichever provider is selected.
C6_EndToEnd ==
    ( /\ Done
      /\ client_data.user_email = "c@x" /\ client_data.company_email = "c@x"
      /\ client_data.staff_emails = <<>> /\ NoCreator(client_data)
      /\ client_data.assigned_staff = <<>>
      /\ tmis_users = <<UserPool[1]>>
      /\ cfg.smtp_creds \/ cfg.brevo = "ok"
      /\ smtpEnv = "Deliver" /\ apiEnv = "Deliver" )
    => /\ Cardinality({i \in 1..Len(sent) : "c@x" \in Range(sent[i].to)}) = 1
       /\ \A i \in 1..Len(sent) : UserPool[1].email \notin Range(sent[i].to)

\* C7: when the client message of an SMTP path went to two recipients, delivered to
\* the first and refused for the second, the message counts as sent, and the call
\* returns success unless the staff message failed.
C7_PartialSuccess ==
    ( /\ IsSmtpPath(path)
      /\ client_success # "none"
      /\ OutcomesOf(path, "client") = <<"Delivered", "SMTPRecipientsRefused">> )
    => /\ client_success = "True"
       /\ (Done /\ tmis_success # "False") => result = "True"

\* C7 witness: a finished call whose client message was delivered to one of two
C7_Witness ==
    /\ Done
    /\ IsSmtpPath(path)
    /\ cfg.brevo = "none"
    /\ Len(client_recipients) = 2
    /\ OutcomesOf(path, "client") = <<"Delivered", "SMTPRecipientsRefused">>
    /\ result = "True"

\* C8: the call ends with a boolean, and once a sender call has a session, every
\* recipient after the first of its message gets a send attempt, whatever happened
\* to the recipients before it.
C8_FailureIsolation ==
    /\ Done => result \in {"True", "False"}
    /\ \A res \in resolved : \A aud \in Audiences :
          ( /\ <<res.path, aud>> \in entered
            /\ ~(path = res.path /\ msg.aud = aud) )
          => LET recipients == IF aud = "staff" THEN res.staff ELSE res.client
             IN  \A k \in 2..Len(recipients) :
                    \E i \in 1..Len(sent) :
                        /\ sent[i].path = res.path /\ sent[i].aud = aud
                        /\ recipients[k] \in Range(sent[i].to)

\* C9: once an audience's message is delivered to a recipient, no later request of
\* the same call sends that audience's message to that recipient again.
C9_NoDuplicateDelivery ==
    \A i \in 1..Len(sent) : \A j \in 1..Len(sent) :
        (i < j /\ sent[i].out = "Delivered" /\ sent[i].aud = sent[j].aud)
        => Range(sent[i].to) \cap Range(sent[j].to) = {}

\* C10: when every resolver that ran found no staff and no client recipient, the
\* call returns something other than the failure value, and no session was opened
\* and no request made.
C10_NoRecipients ==
    ( /\ Done
      /\ resolved # {}
      /\ \A res \in resolved : res.staff = <<>> /\ res.client = <<>> )
    => /\ result # "False"
       /\ sent = <<>>
       /\ \A k \in Paths \X Audiences : connects[k] = 0

\* C16: every transport request made (an SMTP message, an API request, a message of
\* the production service) is addressed to exactly one recipient.
C16_OneRecipientPerMessage ==
    \A i \in 1..Len(sent) : Len(sent[i].to) = 1

\* C17: a session is open only while the sender call that opened it is in its send
\* loop, never after the call has returned, and a session carries the message of
\* at most one recipient.
C17_SessionLifetime ==
    /\ server = "open" => pc = "send"
    /\ pc = "send" => Len(msg.successful) + Len(msg.failed) <= 1

\* C18: a sender call makes at most max_retries session attempts; the k-th wait
\* between attempts is initial_retry_delay * 2^(k-1) seconds (2 s, then 4 s); no
\* wait follows the last attempt; and the finished call has a boolean result.
C18_RetryBudgetBackoff ==
    /\ msg.attempt < max_retries
    /\ Len(msg.slept) = msg.attempt
    /\ Len(msg.slept) <= max_retries - 1
    /\ \A k \in 1..Len(msg.slept) : msg.slept[k] = initial_retry_delay * 2^(k - 1)
    /\ Done => result \in {"True", "False"}

\* C20: in every resolved client list no two entries are equal when compared
\* case-insensitively, and user_email, when present, keeps the first place.
C20_CaseInsensitiveDedup ==
    \A res \in resolved :
        /\ \A i \in 1..Len(res.client) : \A j \in 1..Len(res.client) :
              i < j => Lower(res.client[i]) # Lower(res.client[j])
        /\ (Truthy(client_data.user_email) /\ res.client # <<>>)
              => res.client[1] = client_data.user_email

\* C13: smtp_with_timeout never waits in join past timeout_seconds, and when func
\* has not finished at the check after the deadline it returns its timeout failure,
\* at the deadline, whether or not func ever returns.
C13_GuardDeadline ==
    /\ gpc \in {"join", "check"} => elapsed <= timeout_seconds
    /\ ret.thread # 0 =>
          /\ ret.at <= timeout_seconds
          /\ ret.alive => /\ ret.conn_error = GuardTimeout
                          /\ ret.server = None
                          /\ ret.at = timeout_seconds

\* C13 witness: the call has returned after a guard timeout, and func still runs
C13_Witness ==
    /\ gpc = "returned"
    /\ ret.conn_error = GuardTimeout /\ ret.at = timeout_seconds
    /\ threads[ret.thread].alive

\* C14: when func has finished by the time the guard looks, smtp_with_timeout
\* returns func's result if it returned, and func's own exception if it raised;
\* never its timeout and never another error.
C14_GuardResult ==
    (ret.thread # 0 /\ ~ret.alive) =>
        LET t == threads[ret.thread]
        IN  IF t.outcome = "session"
            THEN ret.server = "session" /\ ret.conn_error = NoError
            ELSE ret.server = None /\ ret.conn_error = Raised(t.outcome)

\* C14 witness: func raised its own TimeoutError before the deadline, and that one
\* came back
C14_Witness ==
    /\ ret.thread # 0 /\ ~ret.alive /\ ret.at < timeout_seconds
    /\ ret.conn_error = Raised("TimeoutError")

\* C15: every blocking transport step (connection, STARTTLS, login, sending one
\* message) runs under smtp_with_timeout, so the delivery is never blocked in one
\* step for more than timeout_seconds.
C15_GuardCoverage ==
    gpc \in {"join"} \cup CallerSteps => elapsed <= timeout_seconds

\* C11: a notification thread exists only for a committed update; once it is
\* started the handler can answer at once, wherever the thread is; and the answer
\* is made of the request alone, the same whatever the thread has computed.
C11_FireAndForget ==
    \A r \in Requests :
        /\ workers[r].wpc # "none" => requests[r].committed
        /\ requests[r].rpc = "respond" => ENABLED Respond(r)
        /\ (requests[r].rpc = "responded" /\ requests[r].committed) =>
              requests[r].response =
                  [code |-> 200, success |-> TRUE, notifications_sent_async |-> TRUE,
                   loan_status |-> IF requests[r].body.loan_status \in LoanStatuses
                                   THEN requests[r].body.loan_status ELSE "",
                   error |-> ""]

\* C11 witness: the response is out and the thread has not taken its first step
C11_Witness ==
    \E r \in Requests :
        /\ requests[r].rpc = "responded" /\ requests[r].response.code = 200
        /\ workers[r].wpc = "started"

\* C12: every request whose update was committed is answered with success and
\* notifications_sent_async = true, whatever the notification thread met: the email
\* call failing or raising, no email service, the record gone.
C12_FailureInvisible ==
    \A r \in Requests :
        (requests[r].committed /\ requests[r].rpc = "responded") =>
            /\ requests[r].response.code = 200
            /\ requests[r].response.success
            /\ requests[r].response.notifications_sent_async

\* C12 witness: answered with success although the email call raised in the thread
C12_Witness ==
    \E r \in Requests :
        /\ requests[r].rpc = "responded" /\ requests[r].response.code = 200
        /\ requests[r].response.notifications_sent_async
        /\ workers[r].wpc = "finished" /\ workers[r].email_sent = "raised"

\* C19: the plain-text body derived from a well-formed HTML body contains no '<'
\* and no '>', and it is the text of the HTML body it is sent with.
C19_TagStripping ==
    cpc = "composed" =>
        /\ ~Contains("<", text_body)
        /\ ~Contains(">", text_body)
        /\ text_body = CollapseWhitespace(StripTags(html_body))

\* C21: in every resolution no address is both a staff recipient and a client
\* recipient, so no address gets both the staff message and the client message.
C21_DisjointAudiences ==
    \A res \in resolved : Range(res.staff) \cap Range(res.client) = {}

\* C24: in a call that carries a loan_status every client message, on the
\* first-choice path and on the fallback alike, is made with the loan-status
\* template, and no staff message ever is.
C24_TemplateMapping ==
    /\ msg.aud = "staff" => msg.tpl # "loan"
    /\ \A i \in 1..Len(sent) : sent[i].aud = "staff" => sent[i].tpl # "loan"
    /\ Truthy(loan_status) =>
          /\ msg.aud = "client" => msg.tpl = "loan"
          /\ \A i \in 1..Len(sent) : sent[i].aud = "client" => sent[i].tpl = "loan"

\* C28: on the fallback path, entered after the first-choice path failed, with
\* assigned staff that matches a directory account and an SMTP server that accepts
\* every message, each matched staff account is delivered the staff message and
\* the staff message counts as sent.
C28_FallbackDeliversStaff ==
    ( /\ path = "fallback"
      /\ \E res \in resolved : res.path = "fallback"
      /\ first_result = "False"
      /\ smtpEnv = "Deliver"
      /\ tmis_recipients # <<>>
      /\ tmis_success # "none" )
    => /\ tmis_success = "True"
       /\ \A k \in 1..Len(tmis_recipients) :
             \E i \in 1..Len(sent) :
                 /\ sent[i].path = "fallback" /\ sent[i].aud = "staff"
                 /\ sent[i].to = <<tmis_recipients[k].email>>
                 /\ sent[i].out = "Delivered"

\* C27: send_client_update_notification reaches its Priority-4 production branch
\* only without SMTP credentials; the production service then returns failure with
\* no session attempted and no message handed to a transport, so nothing is ever
\* delivered through that branch.
C27_DeadProductionBranch ==
    cfg.entry = "EmailService" =>
        /\ pc = "production" => ~cfg.smtp_creds
        /\ \A aud \in Audiences : connects[<<"production", aud>>] = 0
        /\ \A i \in 1..Len(sent) : sent[i].path # "production"
        /\ (Done /\ path = "production") => result = "False"

\* C27 witness: a call with an enhanced production service behind no provider went
\* through the Priority-4 branch and came back
C27_Witness ==
    /\ Done
    /\ cfg.entry = "EmailService" /\ cfg.prod = "enhanced"
    /\ path = "production"
    /\ result = "False"
    /\ Recipients("staff") = {} /\ sent = <<>>

\* C25: what smtp_with_timeout returns is made of the queues of the thread that
\* invocation started, never of another thread's: after a timeout nothing of the
\* abandoned thread comes back, whatever it ends with later, and the session the
\* caller holds is the one made for the current attempt.
C25_AbandonedIsolation ==
    /\ ret.thread # 0 =>
          LET t == threads[ret.thread]
          IN  /\ ret.alive => ret.server = None /\ ret.conn_error.by # "func"
              /\ ret.server # None => t.result_queue = <<ret.server>>
              /\ ret.conn_error.by = "func" => t.exception_queue = <<ret.conn_error>>
    /\ smtp_session \in {"connected", "tls", "authenticated"} =>
          /\ ret.thread = Len(threads)
          /\ threads[ret.thread].result_queue = <<"session">>

\* C25 witness: the first thread was abandoned at the deadline and ended with a
\* session later; the next invocation returned its own thread's exception
C25_Witness ==
    /\ Len(threads) = 2
    /\ ~threads[1].alive /\ threads[1].outcome = "session"
    /\ smtp_session = "none"
    /\ ret.thread = 2 /\ ret.conn_error = Raised("OSError")

\* C26: the send loop runs only on a session that was connected, then upgraded by
\* STARTTLS, then authenticated, all in the current attempt; it is never entered
\* without a session or with a plain or unauthenticated one, whatever failures and
\* retries came before.
C26_ProtocolOrder ==
    /\ gpc = "send" =>
          /\ smtp_session = "authenticated"
          /\ ret.thread = Len(threads)
          /\ ret.server = "session" /\ ret.conn_error = NoError
    /\ smtp_session = "tls" => gpc = "login"
    /\ smtp_session = "connected" => gpc = "starttls"
    /\ (gpc = "returned" /\ g_result = "True") => smtp_session = "authenticated"

\* C26 witness: a message went out in the third attempt, after two failed ones
C26_Witness ==
    /\ gpc = "send"
    /\ call.attempt = max_retries - 1
    /\ call.idx > 1 /\ call.successful > 0
    /\ smtp_session = "authenticated"

\* C22: the record handed to send_client_update_notification for an update is the
\* record as that update committed it: its loan_status is the one the update set,
\* also when another update of the same client is committed before the thread reads.
C22_SnapshotAtUpdate ==
    \A r \in Requests : \A i \in 1..Len(email_calls[r]) :
        requests[r].update_data.set_loan_status =>
            email_calls[r][i].client_data.loan_status = requests[r].update_data.loan_status

\* C23: for update_loan_status, a notification thread exists only once the update
\* is committed and always once the handler is past start(); a rejected request has
\* no thread and no call; and a thread calls send_client_update_notification at
\* most once.
C23_OneRunPerCommit ==
    \A r \in Requests :
        requests[r].handler = "update_loan_status" =>
            /\ workers[r].wpc # "none" => requests[r].committed
            /\ (requests[r].committed /\ requests[r].rpc \in {"respond", "responded"})
                  => workers[r].wpc # "none"
            /\ ~requests[r].committed =>
                  workers[r].wpc = "none" /\ email_calls[r] = <<>>
            /\ (requests[r].rpc = "responded" /\ requests[r].response.code # 200)
                  => ~requests[r].committed
            /\ Len(email_calls[r]) <= 1
            /\ email_calls[r] # <<>> => workers[r].wpc = "finished"

\* C23 witness: one update_loan_status request was rejected and nothing ran for it,
\* another was committed and its thread made its one call
C23_Witness ==
    \E r1 \in Requests : \E r2 \in Requests :
        /\ requests[r1].handler = "update_loan_status"
        /\ requests[r1].rpc = "responded" /\ requests[r1].response.code = 400
        /\ workers[r1].wpc = "none"
        /\ requests[r2].handler = "update_loan_status"
        /\ requests[r2].rpc = "responded" /\ requests[r2].response.code = 200
        /\ workers[r2].wpc = "finished" /\ Len(email_calls[r2]) = 1

\* C29: when two update_payment_gateway_status requests for different gateways of
\* the same client have both been answered with success, the stored
\* payment_gateways_status holds the status of both.
C29_NoLostGatewayUpdate ==
    \A r1 \in Requests : \A r2 \in Requests :
        ( /\ r1 # r2
          /\ requests[r1].handler = "update_payment_gateway_status"
          /\ requests[r2].handler = "update_payment_gateway_status"
          /\ requests[r1].body.gateway # requests[r2].body.gateway
          /\ requests[r1].rpc = "responded" /\ requests[r1].response.code = 200
          /\ requests[r2].rpc = "responded" /\ requests[r2].response.code = 200 )
        => /\ clients_collection.payment_gateways_status[requests[r1].body.gateway]
                = requests[r1].body.status
           /\ clients_collection.payment_gateways_status[requests[r2].body.gateway]
                = requests[r2].body.status

\* C30: every call of get_account_status returns, for every email and every state
\* of the manager, a locked-out email included: a thread that is in the method
\* comes out of it.
C30_StatusReturns ==
    \A t \in Callers :
        (frames[t].method = "get_account_status") ~> (frames[t].at = "idle")

====
